---- MODULE Spec2Model ----
(***************************************************************************)
(* A model of the DataBackup reconciler of fluid                           *)
(* (pkg/controllers/v1alpha1/databackup/implement.go): the Pending and     *)
(* Executing handlers, the deletion handler, the dataset lock kept in      *)
(* Dataset.Status.DataBackupRef, and the cluster objects they read and     *)
(* write through a client with optimistic concurrency.                     *)
(***************************************************************************)
EXTENDS Integers, Sequences, FiniteSets, TLC

\* ------------------------------------------------------------------ bounds
\* Number of DataBackup objects (all in one namespace).
NumDataBackups == 2
\* Number of Dataset objects.
NumDatasets == 1

\* The last time the clock reaches.
MaxTime == 3

DataBackups == 1..NumDataBackups
Datasets == 1..NumDatasets
Namespace == "default"

\* The time the clock starts with, and the times a DataBackup may have been
\* created at when the clock is followed.
StartTime == 1
CreationTimes == 0..StartTime

\* ------------------------------------------------------- program constants
PhasePending == "Pending"
PhaseExecuting == "Executing"
PhaseComplete == "Complete"
PhaseFailed == "Failed"

AlluxioRuntime == "alluxio"
GooseFSRuntime == "goosefs"
AccelerateCategory == "Accelerate"

Finalizer == "fluid-databackup-controller-finalizer"

\* common.PathScheme ("local://") and common.VolumeScheme ("pvc://"), as
\* sequences of characters so that strings.HasPrefix is computed.
PathScheme == <<"l", "o", "c", "a", "l", ":", "/", "/">>
VolumeScheme == <<"p", "v", "c", ":", "/", "/">>

\* The backup paths a DataBackup may carry: one per recognized scheme, and
\* one that misses the volume scheme by one character.
BackupPaths ==
    { <<"p", "v", "c", ":", "/", "/", "c", "/", "s">>,
      <<"l", "o", "c", "a", "l", ":", "/", "/", "/", "d">>,
      <<"p", "v", "c", ":", "/", "c">> }

\* The runtime bindings a Dataset may carry in Status.Runtimes.
RuntimeBindings ==
    { <<>>,
      <<[Category |-> AccelerateCategory, Type |-> AlluxioRuntime, MasterReplicas |-> 1]>>,
      <<[Category |-> AccelerateCategory, Type |-> GooseFSRuntime, MasterReplicas |-> 3]>>,
      <<[Category |-> AccelerateCategory, Type |-> "jindo", MasterReplicas |-> 1]>> }

\* Scheduling directives returned by a reconciliation.
RequeueImmediately == "RequeueImmediately"
RequeueAfterInterval == "RequeueAfterInterval"
RequeueIfError == "RequeueIfError"
NoRequeue == "NoRequeue"

\* ------------------------------------------------------------------- state
VARIABLES
    databackup,    \* the DataBackup objects in the cluster
    dataset,       \* the Dataset objects in the cluster
    releases,      \* helm releases installed, by DataBackup
    backupPod,     \* phase of each DataBackup's worker pod
    podConditions, \* Status.Conditions of each DataBackup's worker pod
    runtimeReady,  \* answer of the runtime's Ready() probe, by Dataset
    pc,            \* where each DataBackup's reconciliation is: idle, at the
                   \* start of a handler, or before the next call of one
    ctx,           \* reconcileRequestContext of the running reconciliation
    result,        \* what the last finished reconciliation returned and did
    now            \* the time of the clock, time.Now()

vars == <<databackup, dataset, releases, backupPod, podConditions, runtimeReady,
          pc, ctx, result, now>>

\* ----------------------------------------------------------------- helpers
\* strings.HasPrefix
HasPrefix(s, prefix) ==
    /\ Len(s) >= Len(prefix)
    /\ SubSeq(s, 1, Len(prefix)) = prefix

\* utils.GetDataBackupRef: the reference a DataBackup writes in the lock.
GetDataBackupRef(name, namespace) == <<namespace, name>>

\* The empty DataBackupRef.
NoRef == <<>>

MyDataBackupRef(r) == GetDataBackupRef(r, Namespace)

\* utils.GetRuntimeByCategory: index (-1 when absent) and binding (zero
\* value when absent) of the first runtime of the category.
ZeroRuntime == [Category |-> "", Type |-> "", MasterReplicas |-> 0]

GetRuntimeByCategory(runtimes, category) ==
    LET found == { i \in 1..Len(runtimes) : runtimes[i].Category = category }
    IN  IF found = {}
        THEN [index |-> -1, runtime |-> ZeroRuntime]
        ELSE LET i == CHOOSE j \in found : \A k \in found : j <= k
             IN  [index |-> i - 1, runtime |-> runtimes[i]]

\* utils.HasDeletionTimestamp
HasDeletionTimestamp(obj) == obj.DeletionTimestamp

\* utils.RemoveString on the finalizers
RemoveString(finalizers, s) == finalizers \ {s}

\* A DataBackup object is in the cluster until its last finalizer is removed
\* while it is marked for deletion.
Exists(r) == Finalizer \in databackup[r].Finalizers

Phase(r) == databackup[r].Status.Phase
TargetOf(r) == databackup[r].Spec.Dataset
LockRef(d) == dataset[d].Status.DataBackupRef

\* Condition lists written by the handlers.
Condition(type, reason) == <<[Type |-> type, Reason |-> reason]>>

NullDataBackup ==
    [ResourceVersion |-> -1, CreationTimestamp |-> 0,
     DeletionTimestamp |-> FALSE, Finalizers |-> {},
     Spec |-> [Dataset |-> 0, BackupPath |-> <<>>],
     Status |-> [Phase |-> "", Conditions |-> <<>>, Duration |-> <<>>]]

NullDataset ==
    [ResourceVersion |-> -1, Status |-> [DataBackupRef |-> NoRef, Runtimes |-> <<>>]]

\* The context of a DataBackup that is not being reconciled.
NoCtx == [DataBackup |-> NullDataBackup, Dataset |-> NullDataset]

NoResult == [Requeue |-> "", DatasetWrite |-> "none", Installed |-> FALSE]

Result(requeue, write, installed) ==
    [Requeue |-> requeue, DatasetWrite |-> write, Installed |-> installed]

\* ------------------------------------------------------- the cluster client
\* Status().Update / Update on a DataBackup: accepted when the call does not
\* fail and the copy was made from the current version of the object.
DataBackupWriteAccepted(r, toUpdate, err) ==
    /\ ~err
    /\ Exists(r)
    /\ toUpdate.ResourceVersion = databackup[r].ResourceVersion

\* Status().Update on a Dataset: accepted under the same two conditions.
DatasetWriteAccepted(d, toUpdate, err) ==
    /\ ~err
    /\ toUpdate.ResourceVersion = dataset[d].ResourceVersion

\* The DataBackup objects after an accepted status update of r.
WithStatus(r, toUpdate) ==
    [databackup EXCEPT ![r].Status = toUpdate.Status,
                       ![r].ResourceVersion = @ + 1]

\* The update sent to the object instead of its status subresource: the
\* version moves on and the status stays as it was.
WithDatasetStatus_NotStatus(d, toUpdate) ==
    [dataset EXCEPT ![d].ResourceVersion = @ + 1]

\* The Dataset objects after an accepted status update of d.
WithDatasetStatus(d, toUpdate) ==
    [dataset EXCEPT ![d].Status = toUpdate.Status,
                    ![d].ResourceVersion = @ + 1]

\* -------------------------------------------------------------------- Init
\* DataBackups as submitted at a time of `times', with paths of `paths', on
\* datasets that are unlocked and bound as in `bindings'; the time is
\* `start' and no reconciliation has run.  Status.Duration, a string of the
\* program that is empty until it is written, is the empty sequence or the
\* sequence of one number.
InitAt(paths, bindings, times, start) ==
    /\ databackup \in
         [DataBackups ->
            { [ResourceVersion |-> 1, CreationTimestamp |-> t,
               DeletionTimestamp |-> FALSE,
               Finalizers |-> {Finalizer},
               Spec |-> [Dataset |-> d, BackupPath |-> p],
               Status |-> [Phase |-> PhasePending, Conditions |-> <<>>,
                           Duration |-> <<>>]]
              : d \in Datasets, p \in paths, t \in times }]
    /\ dataset \in
         [Datasets ->
            { [ResourceVersion |-> 1,
               Status |-> [DataBackupRef |-> NoRef, Runtimes |-> rt]]
              : rt \in bindings }]
    /\ releases = {}
    /\ backupPod = [r \in DataBackups |-> "NotFound"]
    /\ podConditions = [r \in DataBackups |-> <<>>]
    /\ runtimeReady \in [Datasets -> BOOLEAN]
    /\ pc = [r \in DataBackups |-> "idle"]
    /\ ctx = [r \in DataBackups |-> NoCtx]
    /\ result = [r \in DataBackups |-> NoResult]
    /\ now = start

\* All DataBackups submitted at the time the clock starts with.
InitWith(paths, bindings) == InitAt(paths, bindings, {StartTime}, StartTime)

Init == InitWith(BackupPaths, RuntimeBindings)

\* The paths and bindings of the behaviours in which the clock is followed.
TimedPaths == { <<"p", "v", "c", ":", "/", "/", "c", "/", "s">> }

TimedBindings ==
    { <<[Category |-> AccelerateCategory, Type |-> GooseFSRuntime, MasterReplicas |-> 3]>> }

\* One reconciliation ends: its context is dropped and its result recorded.
Finish(r, res) ==
    /\ pc' = [pc EXCEPT ![r] = "idle"]
    /\ ctx' = [ctx EXCEPT ![r] = NoCtx]
    /\ result' = [result EXCEPT ![r] = res]

\* The handler of r goes on to its next call: the call it made has returned,
\* and the other workers and the user act before the next one is made.
Continue(r, position) ==
    /\ pc' = [pc EXCEPT ![r] = position]
    /\ UNCHANGED <<ctx, result>>

\* ------------------------------------------------------------- dispatcher
\* The controller's Reconcile: reads the DataBackup and its Dataset, and
\* routes to the deletion handler or to the handler of the current phase.
Reconcile(r) ==
    /\ pc[r] = "idle"
    /\ Exists(r)
    /\ ctx' = [ctx EXCEPT ![r] = [DataBackup |-> databackup[r],
                                  Dataset |-> dataset[TargetOf(r)]]]
    /\ pc' = [pc EXCEPT ![r] =
                IF HasDeletionTimestamp(databackup[r]) THEN "Deletion"
                ELSE IF Phase(r) = PhasePending THEN "Pending"
                ELSE IF Phase(r) = PhaseExecuting THEN "Executing"
                ELSE "Terminal"]
    /\ UNCHANGED <<databackup, dataset, releases, backupPod, podConditions,
                   runtimeReady, now, result>>

\* The terminal handler that clears the conditions of the DataBackup.
reconcileTerminalDataBackup_Clears(r) ==
    /\ pc[r] = "Terminal"
    /\ databackup' = [databackup EXCEPT ![r].Status.Conditions = <<>>]
    /\ Finish(r, Result(NoRequeue, "none", FALSE))
    /\ UNCHANGED <<dataset, releases, backupPod, podConditions, runtimeReady, now>>

\* A DataBackup in Complete or Failed: nothing to do.
reconcileTerminalDataBackup(r) ==
    /\ pc[r] = "Terminal"
    /\ Finish(r, Result(NoRequeue, "none", FALSE))
    /\ UNCHANGED <<databackup, dataset, releases, backupPod, podConditions,
                   runtimeReady, now>>

\* --------------------------------------------------------- Pending handler
\* IsConflict with the comparison of the two references dropped from the
\* condition's second half: a lock held by anyone counts as one's own.
IsConflict_OwnOnly(conflictDataBackupRef, myDataBackupRef) ==
    Len(conflictDataBackupRef) # 0 /\ conflictDataBackupRef = myDataBackupRef

\* Step 1: another DataBackup holds the lock of the target dataset.
IsConflict(conflictDataBackupRef, myDataBackupRef) ==
    Len(conflictDataBackupRef) # 0 /\ conflictDataBackupRef # myDataBackupRef

\* BoundedRuntimeReady without the case of the GooseFS runtime.
BoundedRuntimeReady_AlluxioOnly(targetDataset, d) ==
    LET boundedRuntime ==
            GetRuntimeByCategory(targetDataset.Status.Runtimes, AccelerateCategory).runtime
    IN  IF boundedRuntime.Type = AlluxioRuntime THEN runtimeReady[d]
        ELSE FALSE

\* Step 2: the bounded runtime of the accelerate category answers Ready();
\* a missing binding or another runtime type leaves ready false.
BoundedRuntimeReady(targetDataset, d) ==
    LET boundedRuntime ==
            GetRuntimeByCategory(targetDataset.Status.Runtimes, AccelerateCategory).runtime
    IN  IF boundedRuntime.Type = AlluxioRuntime THEN runtimeReady[d]
        ELSE IF boundedRuntime.Type = GooseFSRuntime THEN runtimeReady[d]
        ELSE FALSE

\* PathSupported with the schemes compared up to the colon only.
PathSupported_UpToColon(backupPath) ==
    ~(~HasPrefix(backupPath, SubSeq(PathScheme, 1, 6))
        /\ ~HasPrefix(backupPath, SubSeq(VolumeScheme, 1, 4)))

\* Step 3: the backup path starts with one of the two schemes.
PathSupported(backupPath) ==
    ~(~HasPrefix(backupPath, PathScheme) /\ ~HasPrefix(backupPath, VolumeScheme))

\* The copy of the DataBackup with a Failed condition and phase Failed.
FailedCopy(obj, reason) ==
    [obj EXCEPT !.Status.Conditions = Condition("Failed", reason),
                !.Status.Phase = PhaseFailed]

\* Write the Failed status; requeue immediately, or with the error of the
\* status update.
FailDataBackup(r, reason, statusErr) ==
    LET databackupToUpdate == FailedCopy(ctx[r].DataBackup, reason)
    IN  IF DataBackupWriteAccepted(r, databackupToUpdate, statusErr)
        THEN /\ databackup' = WithStatus(r, databackupToUpdate)
             /\ Finish(r, Result(RequeueImmediately, "none", FALSE))
        ELSE /\ UNCHANGED databackup
             /\ Finish(r, Result(RequeueIfError, "none", FALSE))

\* The copy of the target dataset that carries the lock of myDataBackupRef.
LockedCopy(targetDataset, myDataBackupRef) ==
    [targetDataset EXCEPT !.Status.DataBackupRef = myDataBackupRef]

\* UpdatePhaseToExecuting that advances the phase only after a dataset write
\* of this reconciliation.
UpdatePhaseToExecuting_OnlyAfterWrite(r, statusErr, write) ==
    LET dataBackupToUpdate == [ctx[r].DataBackup EXCEPT !.Status.Phase = PhaseExecuting]
    IN  IF write = "ok" /\ DataBackupWriteAccepted(r, dataBackupToUpdate, statusErr)
        THEN /\ databackup' = WithStatus(r, dataBackupToUpdate)
             /\ Finish(r, Result(RequeueImmediately, write, FALSE))
        ELSE /\ UNCHANGED databackup
             /\ Finish(r, Result(RequeueIfError, write, FALSE))

\* Step 4: the phase is updated to Executing.
UpdatePhaseToExecuting(r, statusErr, write) ==
    LET dataBackupToUpdate == [ctx[r].DataBackup EXCEPT !.Status.Phase = PhaseExecuting]
    IN  IF DataBackupWriteAccepted(r, dataBackupToUpdate, statusErr)
        THEN /\ databackup' = WithStatus(r, dataBackupToUpdate)
             /\ Finish(r, Result(RequeueImmediately, write, FALSE))
        ELSE /\ UNCHANGED databackup
             /\ Finish(r, Result(RequeueIfError, write, FALSE))

\* LockTargetDataset without the return after a failed dataset update: the
\* phase is updated although the lock was not written.
LockTargetDataset_NoReturn(r, d, writeErr, statusErr) ==
    LET targetDataset == ctx[r].Dataset
        datasetToUpdate == LockedCopy(targetDataset, MyDataBackupRef(r))
    IN  IF targetDataset.Status # datasetToUpdate.Status
        THEN IF DatasetWriteAccepted(d, datasetToUpdate, writeErr)
             THEN /\ dataset' = WithDatasetStatus(d, datasetToUpdate)
                  /\ Continue(r, "UpdatePhase")
                  /\ UNCHANGED databackup
             ELSE /\ UNCHANGED dataset
                  /\ UpdatePhaseToExecuting(r, statusErr, "rejected")
        ELSE /\ UNCHANGED dataset
             /\ UpdatePhaseToExecuting(r, statusErr, "none")

\* LockTargetDataset that treats a rejected write of the lock as a conflict
\* and fails the DataBackup.
LockTargetDataset_RejectFails(r, d, writeErr, statusErr) ==
    LET targetDataset == ctx[r].Dataset
        datasetToUpdate == LockedCopy(targetDataset, MyDataBackupRef(r))
    IN  IF targetDataset.Status # datasetToUpdate.Status
        THEN IF DatasetWriteAccepted(d, datasetToUpdate, writeErr)
             THEN /\ dataset' = WithDatasetStatus(d, datasetToUpdate)
                  /\ Continue(r, "UpdatePhase")
                  /\ UNCHANGED databackup
             ELSE /\ UNCHANGED dataset
                  /\ databackup' = WithStatus(r, FailedCopy(ctx[r].DataBackup,
                                                           "conflictDataBackupRef"))
                  /\ Finish(r, Result(RequeueImmediately, "rejected", FALSE))
        ELSE /\ UNCHANGED dataset
             /\ UpdatePhaseToExecuting(r, statusErr, "none")

\* LockTargetDataset that writes the lock without the version that was read:
\* a write made from a stale snapshot is accepted.
LockTargetDataset_Unversioned(r, d, writeErr, statusErr) ==
    LET targetDataset == ctx[r].Dataset
        datasetToUpdate == LockedCopy(targetDataset, MyDataBackupRef(r))
    IN  IF targetDataset.Status # datasetToUpdate.Status
        THEN IF ~writeErr
             THEN /\ dataset' = WithDatasetStatus(d, datasetToUpdate)
                  /\ Continue(r, "UpdatePhase")
                  /\ UNCHANGED databackup
             ELSE /\ UNCHANGED <<dataset, databackup>>
                  /\ Finish(r, Result(RequeueAfterInterval, "rejected", FALSE))
        ELSE /\ UNCHANGED dataset
             /\ UpdatePhaseToExecuting(r, statusErr, "none")

\* Step 3: lock the target dataset.  The dataset is written only when the
\* copy differs from what was read; after an accepted write the handler goes
\* on to the update of the phase, which is its next request to the cluster.
\* With nothing to write the update of the phase is the only request.
LockTargetDataset(r, d, writeErr, statusErr) ==
    LET targetDataset == ctx[r].Dataset
        datasetToUpdate == LockedCopy(targetDataset, MyDataBackupRef(r))
    IN  IF targetDataset.Status # datasetToUpdate.Status
        THEN IF DatasetWriteAccepted(d, datasetToUpdate, writeErr)
             THEN /\ dataset' = WithDatasetStatus(d, datasetToUpdate)
                  /\ Continue(r, "UpdatePhase")
                  /\ UNCHANGED databackup
             ELSE /\ UNCHANGED <<dataset, databackup>>
                  /\ Finish(r, Result(RequeueAfterInterval, "rejected", FALSE))
        ELSE /\ UNCHANGED dataset
             /\ UpdatePhaseToExecuting(r, statusErr, "none")

\* The Pending handler with the runtime asked before the lock is looked at.
reconcilePendingDataBackup_ReadyFirst(r, writeErr, statusErr) ==
    /\ pc[r] = "Pending"
    /\ LET targetDataset == ctx[r].Dataset
           d == ctx[r].DataBackup.Spec.Dataset
           conflictDataBackupRef == targetDataset.Status.DataBackupRef
           myDataBackupRef == MyDataBackupRef(r)
       IN  IF ~BoundedRuntimeReady(targetDataset, d)
           THEN /\ Finish(r, Result(RequeueAfterInterval, "none", FALSE))
                /\ UNCHANGED <<databackup, dataset>>
           ELSE IF IsConflict(conflictDataBackupRef, myDataBackupRef)
           THEN /\ FailDataBackup(r, "conflictDataBackupRef", statusErr)
                /\ UNCHANGED dataset
           ELSE IF ~PathSupported(ctx[r].DataBackup.Spec.BackupPath)
           THEN /\ FailDataBackup(r, "PathNotSupported", statusErr)
                /\ UNCHANGED dataset
           ELSE LockTargetDataset(r, d, writeErr, statusErr)
    /\ UNCHANGED <<releases, backupPod, podConditions, runtimeReady, now>>

\* The Pending handler from its start to its first write: the conflict, the
\* readiness of the runtime, the path, and the lock.
reconcilePendingDataBackup(r, writeErr, statusErr) ==
    /\ pc[r] = "Pending"
    /\ LET targetDataset == ctx[r].Dataset
           d == ctx[r].DataBackup.Spec.Dataset
           conflictDataBackupRef == targetDataset.Status.DataBackupRef
           myDataBackupRef == MyDataBackupRef(r)
       IN  IF IsConflict(conflictDataBackupRef, myDataBackupRef)
           THEN /\ FailDataBackup(r, "conflictDataBackupRef", statusErr)
                /\ UNCHANGED dataset
           ELSE IF ~BoundedRuntimeReady(targetDataset, d)
           THEN /\ Finish(r, Result(RequeueAfterInterval, "none", FALSE))
                /\ UNCHANGED <<databackup, dataset>>
           ELSE IF ~PathSupported(ctx[r].DataBackup.Spec.BackupPath)
           THEN /\ FailDataBackup(r, "PathNotSupported", statusErr)
                /\ UNCHANGED dataset
           ELSE LockTargetDataset(r, d, writeErr, statusErr)
    /\ UNCHANGED <<releases, backupPod, podConditions, runtimeReady, now>>

\* The Pending handler after its write of the lock has returned: step 4, the
\* update of the phase, made from the DataBackup that was read at the start.
reconcilePendingUpdatePhase(r, statusErr) ==
    /\ pc[r] = "UpdatePhase"
    /\ UpdatePhaseToExecuting(r, statusErr, "ok")
    /\ UNCHANGED <<dataset, releases, backupPod, podConditions, runtimeReady, now>>

\* ------------------------------------------------------- Executing handler
\* The calls of the Executing handler that may return an error.
ExecutingFaults ==
    {"none", "MasterPodName", "GetMasterPod", "CheckRelease", "ValueFile",
     "InstallRelease", "GetBackupPod", "StatusUpdate"}

\* The leading master is asked for only with more than one master replica
\* of a supported runtime type.
AsksMasterPodName(targetDataset) ==
    LET boundedRuntime ==
            GetRuntimeByCategory(targetDataset.Status.Runtimes, AccelerateCategory).runtime
    IN  /\ ~(boundedRuntime.MasterReplicas <= 1)
        /\ boundedRuntime.Type \in {AlluxioRuntime, GooseFSRuntime}

\* generateDataBackupValueFile panics: the dataset is read, an accelerate
\* runtime is bound and its type is neither alluxio nor goosefs.  The switch
\* then leaves the image name, the image tag, the image variable and the
\* default image empty, and the tag is taken from the second element of the
\* one-element split of the empty default image.
ValueFilePanics(r, fault) ==
    LET bound == GetRuntimeByCategory(dataset[TargetOf(r)].Status.Runtimes,
                                      AccelerateCategory)
    IN  /\ fault # "ValueFile"
        /\ bound.index # -1
        /\ bound.runtime.Type \notin {AlluxioRuntime, GooseFSRuntime}

\* generateDataBackupValueFile returns an error: the dataset or the files
\* cannot be read or written, no accelerate runtime is bound, or the backup
\* path of a supported runtime cannot be parsed.
ValueFileError(r, fault) ==
    \/ fault = "ValueFile"
    \/ GetRuntimeByCategory(dataset[TargetOf(r)].Status.Runtimes, AccelerateCategory).index = -1
    \/ ~ValueFilePanics(r, fault) /\ ~PathSupported(ctx[r].DataBackup.Spec.BackupPath)

\* kubeclient.IsSucceededPod / IsFailedPod
IsSucceededPod(pod) == pod = "Succeeded"
IsFailedPod(pod) == pod = "Failed"

\* TerminatedCopy that sends a failed backup back to Pending to be retried.
TerminatedCopy_Retry(obj, phase, type, reason) ==
    [obj EXCEPT !.Status.Phase = IF phase = PhaseFailed THEN PhasePending ELSE phase,
                !.Status.Conditions = Condition(type, reason)]

\* The copy of the DataBackup written when the backup pod has terminated.
TerminatedCopy(obj, phase, type, reason) ==
    [obj EXCEPT !.Status.Phase = phase,
                !.Status.Conditions = Condition(type, reason)]

\* FinishBackup that requeues without writing the terminal status.
FinishBackup_Dropped(r, phase, type, reason, fault) ==
    /\ UNCHANGED databackup
    /\ Finish(r, Result(RequeueImmediately, "none", FALSE))

\* utils.CalculateDuration: the span from creationTime to finishTime.
CalculateDuration(creationTime, finishTime) == finishTime - creationTime

\* TerminalTime that is the current time whatever the pod records.
TerminalTime_Now(conditions) == now

\* successTime / failedTime: LastTransitionTime of the first condition of the
\* pod, and the current time when the pod has no condition.
TerminalTime(conditions) ==
    IF Len(conditions) # 0 THEN conditions[1].LastTransitionTime ELSE now

\* Write the terminal status, with the Duration from the creation of the
\* DataBackup to the terminal time; requeue immediately, or with the error.
FinishBackup(r, phase, type, reason, fault) ==
    LET terminated == TerminatedCopy(ctx[r].DataBackup, phase, type, reason)
        databackupToUpdate ==
            [terminated EXCEPT !.Status.Duration =
                <<CalculateDuration(terminated.CreationTimestamp,
                                    TerminalTime(podConditions[r]))>>]
    IN  IF DataBackupWriteAccepted(r, databackupToUpdate, fault = "StatusUpdate")
        THEN /\ databackup' = WithStatus(r, databackupToUpdate)
             /\ Finish(r, Result(RequeueImmediately, "none", FALSE))
        ELSE /\ UNCHANGED databackup
             /\ Finish(r, Result(RequeueIfError, "none", FALSE))

\* ReturnError that gives the backup up: the error of a call is written as
\* phase Failed.
ReturnError_GivesUp(r) ==
    /\ databackup' = WithStatus(r, FailedCopy(ctx[r].DataBackup, "BackupFailed"))
    /\ Finish(r, Result(RequeueIfError, "none", FALSE))
    /\ UNCHANGED <<releases, backupPod, podConditions>>

\* An error of a call: nothing is written and the error is requeued.
ReturnError(r) ==
    /\ Finish(r, Result(RequeueIfError, "none", FALSE))
    /\ UNCHANGED <<databackup, releases, backupPod, podConditions>>

\* A panic of the handler: it returns nothing, and nothing is written or
\* installed; the reconciliation is over.
Panic(r) ==
    /\ Finish(r, Result("Panic", "none", FALSE))
    /\ UNCHANGED <<databackup, releases, backupPod, podConditions>>

\* helm.InstallRelease: the release exists and its pod starts.
InstallRelease(r) ==
    /\ releases' = releases \cup {r}
    /\ backupPod' = [backupPod EXCEPT ![r] = "Running"]
    /\ podConditions' = [podConditions EXCEPT ![r] = <<>>]

\* The Executing handler that installs while the pod has not terminated,
\* whether the release exists or not.
reconcileExecutingDataBackup_Reinstalls(r, fault) ==
    /\ pc[r] = "Executing"
    /\ LET targetDataset == ctx[r].Dataset
           existed == r \in releases /\ backupPod[r] \in {"Succeeded", "Failed"}
       IN  IF AsksMasterPodName(targetDataset) /\ fault = "MasterPodName"
           THEN ReturnError(r)
           ELSE IF fault = "GetMasterPod" THEN ReturnError(r)
           ELSE IF fault = "CheckRelease" THEN ReturnError(r)
           ELSE IF ~existed
           THEN IF ValueFilePanics(r, fault) THEN Panic(r)
                ELSE IF ValueFileError(r, fault) THEN ReturnError(r)
                ELSE IF fault = "InstallRelease" THEN ReturnError(r)
                ELSE /\ InstallRelease(r)
                     /\ Finish(r, Result(RequeueAfterInterval, "none", TRUE))
                     /\ UNCHANGED databackup
           ELSE IF fault = "GetBackupPod" THEN ReturnError(r)
           ELSE IF IsSucceededPod(backupPod[r])
           THEN /\ FinishBackup(r, PhaseComplete, "Complete", "BackupSuccessful", fault)
                /\ UNCHANGED <<releases, backupPod, podConditions>>
           ELSE IF IsFailedPod(backupPod[r])
           THEN /\ FinishBackup(r, PhaseFailed, "Failed", "BackupFailed", fault)
                /\ UNCHANGED <<releases, backupPod, podConditions>>
           ELSE /\ Finish(r, Result(RequeueAfterInterval, "none", FALSE))
                /\ UNCHANGED <<databackup, releases, backupPod, podConditions>>
    /\ UNCHANGED <<dataset, runtimeReady, now>>

\* The Executing handler that takes every pod that has not failed for a pod
\* that has succeeded.
reconcileExecutingDataBackup_CompletesRunning(r, fault) ==
    /\ pc[r] = "Executing"
    /\ LET targetDataset == ctx[r].Dataset
           existed == r \in releases
       IN  IF AsksMasterPodName(targetDataset) /\ fault = "MasterPodName"
           THEN ReturnError(r)
           ELSE IF fault = "GetMasterPod" THEN ReturnError(r)
           ELSE IF fault = "CheckRelease" THEN ReturnError(r)
           ELSE IF ~existed
           THEN IF ValueFilePanics(r, fault) THEN Panic(r)
                ELSE IF ValueFileError(r, fault) THEN ReturnError(r)
                ELSE IF fault = "InstallRelease" THEN ReturnError(r)
                ELSE /\ InstallRelease(r)
                     /\ Finish(r, Result(RequeueAfterInterval, "none", TRUE))
                     /\ UNCHANGED databackup
           ELSE IF fault = "GetBackupPod" THEN ReturnError(r)
           ELSE IF ~IsFailedPod(backupPod[r])
           THEN /\ FinishBackup(r, PhaseComplete, "Complete", "BackupSuccessful", fault)
                /\ UNCHANGED <<releases, backupPod, podConditions>>
           ELSE /\ FinishBackup(r, PhaseFailed, "Failed", "BackupFailed", fault)
                /\ UNCHANGED <<releases, backupPod, podConditions>>
    /\ UNCHANGED <<dataset, runtimeReady, now>>

reconcileExecutingDataBackup(r, fault) ==
    /\ pc[r] = "Executing"
    /\ LET targetDataset == ctx[r].Dataset
           existed == r \in releases
       IN  IF AsksMasterPodName(targetDataset) /\ fault = "MasterPodName"
           THEN ReturnError(r)
           ELSE IF fault = "GetMasterPod" THEN ReturnError(r)
           ELSE IF fault = "CheckRelease" THEN ReturnError(r)
           ELSE IF ~existed
           THEN IF ValueFilePanics(r, fault) THEN Panic(r)
                ELSE IF ValueFileError(r, fault) THEN ReturnError(r)
                ELSE IF fault = "InstallRelease" THEN ReturnError(r)
                ELSE /\ InstallRelease(r)
                     /\ Finish(r, Result(RequeueAfterInterval, "none", TRUE))
                     /\ UNCHANGED databackup
           ELSE IF fault = "GetBackupPod" THEN ReturnError(r)
           ELSE IF IsSucceededPod(backupPod[r])
           THEN /\ FinishBackup(r, PhaseComplete, "Complete", "BackupSuccessful", fault)
                /\ UNCHANGED <<releases, backupPod, podConditions>>
           ELSE IF IsFailedPod(backupPod[r])
           THEN /\ FinishBackup(r, PhaseFailed, "Failed", "BackupFailed", fault)
                /\ UNCHANGED <<releases, backupPod, podConditions>>
           ELSE /\ Finish(r, Result(RequeueAfterInterval, "none", FALSE))
                /\ UNCHANGED <<databackup, releases, backupPod, podConditions>>
    /\ UNCHANGED <<dataset, runtimeReady, now>>

\* -------------------------------------------------------- deletion handler
\* helm.DeleteReleaseIfExists: the release and its pod are gone afterwards.
DeleteReleaseIfExists(r) ==
    /\ releases' = releases \ {r}
    /\ backupPod' = [backupPod EXCEPT ![r] = "NotFound"]
    /\ podConditions' = [podConditions EXCEPT ![r] = <<>>]

\* releaseLockOnTargetDataset that clears the lock whoever holds it.
releaseLockOnTargetDataset_Unconditional(r) ==
    LET d == ctx[r].DataBackup.Spec.Dataset
        current == dataset[d]
    IN  WithDatasetStatus(d, [current EXCEPT !.Status.DataBackupRef = NoRef])

\* releaseLockOnTargetDataset: the Dataset objects after the lock of r on
\* its target dataset is released.  The dataset is read anew; a lock that is
\* free or held by another DataBackup is left as it is.
releaseLockOnTargetDataset(r) ==
    LET d == ctx[r].DataBackup.Spec.Dataset
        current == dataset[d]
    IN  IF current.Status.DataBackupRef # MyDataBackupRef(r)
        THEN dataset
        ELSE WithDatasetStatus(d, [current EXCEPT !.Status.DataBackupRef = NoRef])

\* RemoveFinalizer with the test of the deletion timestamp inverted.
RemoveFinalizer_Inverted(r, fault) ==
    IF ~HasDeletionTimestamp(ctx[r].DataBackup)
    THEN LET toUpdate ==
                 [ctx[r].DataBackup EXCEPT
                    !.Finalizers = RemoveString(ctx[r].DataBackup.Finalizers, Finalizer)]
         IN  IF DataBackupWriteAccepted(r, toUpdate, fault = "RemoveFinalizer")
             THEN /\ databackup' = [databackup EXCEPT
                                      ![r].Finalizers = toUpdate.Finalizers,
                                      ![r].ResourceVersion = @ + 1]
                  /\ Finish(r, Result(NoRequeue, "none", FALSE))
             ELSE /\ UNCHANGED databackup
                  /\ Finish(r, Result(RequeueIfError, "none", FALSE))
    ELSE /\ UNCHANGED databackup
         /\ Finish(r, Result(NoRequeue, "none", FALSE))

\* Step 3: the finalizer is removed from the DataBackup that is marked for
\* deletion, and the object is updated.
RemoveFinalizer(r, fault) ==
    IF HasDeletionTimestamp(ctx[r].DataBackup)
    THEN LET toUpdate ==
                 [ctx[r].DataBackup EXCEPT
                    !.Finalizers = RemoveString(ctx[r].DataBackup.Finalizers, Finalizer)]
         IN  IF DataBackupWriteAccepted(r, toUpdate, fault = "RemoveFinalizer")
             THEN /\ databackup' = [databackup EXCEPT
                                      ![r].Finalizers = toUpdate.Finalizers,
                                      ![r].ResourceVersion = @ + 1]
                  /\ Finish(r, Result(NoRequeue, "none", FALSE))
             ELSE /\ UNCHANGED databackup
                  /\ Finish(r, Result(RequeueIfError, "none", FALSE))
    ELSE /\ UNCHANGED databackup
         /\ Finish(r, Result(NoRequeue, "none", FALSE))

\* The deletion handler that goes on after a failed removal of the release.
ReconcileDataBackupDeletion_IgnoresDeleteError(r, fault) ==
    /\ pc[r] = "Deletion"
    /\ IF fault = "DeleteRelease"
       THEN UNCHANGED <<releases, backupPod, podConditions>>
       ELSE DeleteReleaseIfExists(r)
    /\ Continue(r, "ReleaseLock")
    /\ UNCHANGED <<databackup, dataset, runtimeReady, now>>

\* The deletion handler from its start to the return of its first call:
\* step 1, the release is deleted if it exists.  An error ends the
\* reconciliation; otherwise the handler goes on to release the lock.
ReconcileDataBackupDeletion(r, fault) ==
    /\ pc[r] = "Deletion"
    /\ IF fault = "DeleteRelease"
       THEN /\ Finish(r, Result(RequeueIfError, "none", FALSE))
            /\ UNCHANGED <<releases, backupPod, podConditions>>
       ELSE /\ DeleteReleaseIfExists(r)
            /\ Continue(r, "ReleaseLock")
    /\ UNCHANGED <<databackup, dataset, runtimeReady, now>>

\* The release of the lock without the return after its failure: the handler
\* goes on to remove the finalizer although the lock is still held.
ReconcileDeletionReleaseLock_NoReturn(r, fault) ==
    /\ pc[r] = "ReleaseLock"
    /\ IF fault = "ReleaseLock"
       THEN UNCHANGED dataset
       ELSE dataset' = releaseLockOnTargetDataset(r)
    /\ Continue(r, "RemoveFinalizer")
    /\ UNCHANGED <<databackup, releases, backupPod, podConditions, runtimeReady, now>>

\* The deletion handler after the removal of the release has returned:
\* step 2, the lock on the target dataset is released if r holds it.  An
\* error ends the reconciliation; otherwise the handler goes on to remove
\* the finalizer.
ReconcileDeletionReleaseLock(r, fault) ==
    /\ pc[r] = "ReleaseLock"
    /\ IF fault = "ReleaseLock"
       THEN /\ Finish(r, Result(RequeueIfError, "none", FALSE))
            /\ UNCHANGED dataset
       ELSE /\ dataset' = releaseLockOnTargetDataset(r)
            /\ Continue(r, "RemoveFinalizer")
    /\ UNCHANGED <<databackup, releases, backupPod, podConditions, runtimeReady, now>>

\* The deletion handler after the release of the lock has returned: step 3,
\* the finalizer is removed, from the DataBackup that was read at the start.
ReconcileDeletionRemoveFinalizer(r, fault) ==
    /\ pc[r] = "RemoveFinalizer"
    /\ RemoveFinalizer(r, fault)
    /\ UNCHANGED <<dataset, releases, backupPod, podConditions, runtimeReady, now>>

\* ------------------------------------------------------------- environment
\* The user deletes a DataBackup: the object is marked for deletion.
UserDelete(r) ==
    /\ Exists(r)
    /\ ~HasDeletionTimestamp(databackup[r])
    /\ databackup' = [databackup EXCEPT ![r].DeletionTimestamp = TRUE,
                                        ![r].ResourceVersion = @ + 1]
    /\ UNCHANGED <<dataset, releases, backupPod, podConditions, runtimeReady, now,
                   pc, ctx, result>>

\* The worker pod of a DataBackup terminates.
BackupPodTerminates(r, phase) ==
    /\ backupPod[r] = "Running"
    /\ backupPod' = [backupPod EXCEPT ![r] = phase]
    /\ UNCHANGED <<databackup, dataset, releases, podConditions, runtimeReady, now,
                   pc, ctx, result>>

\* The first status condition of a running worker pod is recorded, at the
\* current time.
PodConditionRecorded(r) ==
    /\ backupPod[r] = "Running"
    /\ podConditions[r] = <<>>
    /\ podConditions' = [podConditions EXCEPT ![r] = <<[LastTransitionTime |-> now]>>]
    /\ UNCHANGED <<databackup, dataset, releases, backupPod, runtimeReady, now,
                   pc, ctx, result>>

\* Time passes.
Tick ==
    /\ now < MaxTime
    /\ now' = now + 1
    /\ UNCHANGED <<databackup, dataset, releases, backupPod, podConditions,
                   runtimeReady, pc, ctx, result>>

\* The runtime of a dataset becomes ready or stops being ready.
RuntimeProbeChanges(d) ==
    /\ runtimeReady' = [runtimeReady EXCEPT ![d] = ~@]
    /\ UNCHANGED <<databackup, dataset, releases, backupPod, podConditions, now,
                   pc, ctx, result>>

\* -------------------------------------------------------------------- Next
Next ==
    \/ \E r \in DataBackups : Reconcile(r)
    \/ \E r \in DataBackups : reconcileTerminalDataBackup(r)
    \/ \E r \in DataBackups, writeErr \in BOOLEAN, statusErr \in BOOLEAN :
           reconcilePendingDataBackup(r, writeErr, statusErr)
    \/ \E r \in DataBackups, statusErr \in BOOLEAN :
           reconcilePendingUpdatePhase(r, statusErr)
    \/ \E r \in DataBackups, fault \in ExecutingFaults :
           reconcileExecutingDataBackup(r, fault)
    \/ \E r \in DataBackups, fault \in {"none", "DeleteRelease"} :
           ReconcileDataBackupDeletion(r, fault)
    \/ \E r \in DataBackups, fault \in {"none", "ReleaseLock"} :
           ReconcileDeletionReleaseLock(r, fault)
    \/ \E r \in DataBackups, fault \in {"none", "RemoveFinalizer"} :
           ReconcileDeletionRemoveFinalizer(r, fault)
    \/ \E r \in DataBackups : UserDelete(r)
    \/ \E r \in DataBackups, phase \in {"Succeeded", "Failed"} :
           BackupPodTerminates(r, phase)
    \/ \E r \in DataBackups : PodConditionRecorded(r)
    \/ \E d \in Datasets : RuntimeProbeChanges(d)

Spec == Init /\ [][Next]_vars

\* The behaviours in which the clock is followed: DataBackups created at or
\* before the start, with a path of the volume scheme on a dataset with a
\* GooseFS runtime of three masters, and time passing between the steps.
TimedInit == InitAt(TimedPaths, TimedBindings, CreationTimes, StartTime)

TimedNext == Next \/ Tick

TimedSpec == TimedInit /\ [][TimedNext]_vars

\* Fair reconciliation: every DataBackup in the cluster is reconciled again
\* and again, and a handler that is running makes its next call, which
\* fails or not, and goes on or returns.
Fairness ==
    \A r \in DataBackups :
        /\ WF_vars(Reconcile(r))
        /\ WF_vars(reconcileTerminalDataBackup(r))
        /\ WF_vars(\E writeErr \in BOOLEAN, statusErr \in BOOLEAN :
                      reconcilePendingDataBackup(r, writeErr, statusErr))
        /\ WF_vars(\E statusErr \in BOOLEAN : reconcilePendingUpdatePhase(r, statusErr))
        /\ WF_vars(\E fault \in ExecutingFaults : reconcileExecutingDataBackup(r, fault))
        /\ WF_vars(\E fault \in {"none", "DeleteRelease"} :
                      ReconcileDataBackupDeletion(r, fault))
        /\ WF_vars(\E fault \in {"none", "ReleaseLock"} :
                      ReconcileDeletionReleaseLock(r, fault))
        /\ WF_vars(\E fault \in {"none", "RemoveFinalizer"} :
                      ReconcileDeletionRemoveFinalizer(r, fault))

\* The behaviours checked for progress start with a path of the volume
\* scheme or the unrecognized path, on a dataset with a GooseFS runtime of
\* three masters or with no runtime bound.
LivePaths ==
    { <<"p", "v", "c", ":", "/", "/", "c", "/", "s">>,
      <<"p", "v", "c", ":", "/", "c">> }

LiveBindings ==
    { <<>>,
      <<[Category |-> AccelerateCategory, Type |-> GooseFSRuntime, MasterReplicas |-> 3]>> }

LiveInit == InitWith(LivePaths, LiveBindings)

FairSpec == LiveInit /\ [][Next]_vars /\ Fairness

\* ------------------------------------------------------------------ claims
Deleting(r) == HasDeletionTimestamp(databackup[r])

\* The reason of the condition of r, "" when it has none.
ReasonOf(r) ==
    IF Len(databackup[r].Status.Conditions) = 0 THEN ""
    ELSE databackup[r].Status.Conditions[1].Reason

\* r holds the lock of its target dataset.
HoldsLock(r) == LockRef(TargetOf(r)) = MyDataBackupRef(r)

\* The phase of r has been Executing at some time: the phase is Executing, or
\* one of the two statuses that only the Executing handler writes.
EverExecuting(r) ==
    \/ Phase(r) \in {PhaseExecuting, PhaseComplete}
    \/ Phase(r) = PhaseFailed /\ ReasonOf(r) = "BackupFailed"

\* The paths of BackupPaths that start with neither scheme.
UnrecognizedPaths == { <<"p", "v", "c", ":", "/", "c">> }

HasUnrecognizedPath(r) == databackup[r].Spec.BackupPath \in UnrecognizedPaths

\* The positions of a handler: its start, and the positions after each of
\* its calls that has returned with the handler going on.
Positions(handler) ==
    IF handler = "Pending" THEN {"Pending", "UpdatePhase"}
    ELSE IF handler = "Deletion" THEN {"Deletion", "ReleaseLock", "RemoveFinalizer"}
    ELSE {handler}

\* The running reconciliation of r, in the given handler, makes this step.
HandlerSteps(r, handler) == pc[r] \in Positions(handler) /\ pc'[r] # pc[r]

\* The reconciliation of r that is running ends in this step.
HandlerEnds(r, handler) == pc[r] \in Positions(handler) /\ pc'[r] = "idle"

\* C1 as stated: in every state at most one DataBackup of a dataset is in
\* phase Executing.
C1_Original ==
    \A d \in Datasets :
        Cardinality({ r \in DataBackups :
            Exists(r) /\ TargetOf(r) = d /\ Phase(r) = PhaseExecuting }) <= 1

\* C1 as amended: in every state at most one DataBackup of a dataset that is
\* not marked for deletion is in phase Executing.
C1_Amended ==
    \A d \in Datasets :
        Cardinality({ r \in DataBackups :
            /\ Exists(r) /\ TargetOf(r) = d
            /\ Phase(r) = PhaseExecuting /\ ~Deleting(r) }) <= 1

\* Two DataBackups of one dataset are in phase Executing, one of them marked
\* for deletion and not yet removed.
C1_Witness ==
    \E r1, r2 \in DataBackups :
        /\ r1 # r2 /\ TargetOf(r1) = TargetOf(r2)
        /\ Exists(r1) /\ Phase(r1) = PhaseExecuting /\ ~Deleting(r1)
        /\ Exists(r2) /\ Phase(r2) = PhaseExecuting /\ Deleting(r2)

\* C2 as stated: of two DataBackups of one dataset (all are Pending together
\* in the initial state) at most one ever has its phase set to Executing.
C2_Original ==
    \A r1, r2 \in DataBackups :
        (r1 # r2 /\ TargetOf(r1) = TargetOf(r2))
            => ~(EverExecuting(r1) /\ EverExecuting(r2))

\* Both of two DataBackups of one dataset have had phase Executing only when
\* one of them has been marked for deletion.
OneExecutesUntilDeleted ==
    \A r1, r2 \in DataBackups :
        (r1 # r2 /\ TargetOf(r1) = TargetOf(r2)
            /\ EverExecuting(r1) /\ EverExecuting(r2))
            => (Deleting(r1) \/ Deleting(r2))

\* A Pending reconciliation that read another DataBackup's reference in the
\* lock ends with phase Failed and reason conflictDataBackupRef, or, when its
\* status update is not accepted, with the DataBackup as it was.
ConflictFails ==
    \A r \in DataBackups :
        (/\ HandlerEnds(r, "Pending")
         /\ ctx[r].Dataset.Status.DataBackupRef # NoRef
         /\ ctx[r].Dataset.Status.DataBackupRef # MyDataBackupRef(r))
            => \/ /\ databackup'[r].Status.Phase = PhaseFailed
                  /\ databackup'[r].Status.Conditions
                        = Condition("Failed", "conflictDataBackupRef")
               \/ /\ databackup'[r] = databackup[r]
                  /\ result'[r].Requeue = RequeueIfError

\* C2 as amended: of two DataBackups of one dataset that are Pending together,
\* a second one has its phase set to Executing only after the first has been
\* marked for deletion; and a Pending reconciliation that reads the other's
\* reference in DataBackupRef sets phase Failed with reason
\* conflictDataBackupRef when its status update is accepted.
C2_Amended == []OneExecutesUntilDeleted /\ [][ConflictFails]_vars

\* Both DataBackups of a dataset have had phase Executing, the first one
\* removed after its deletion released the lock.
C2_Witness ==
    \E r1, r2 \in DataBackups :
        /\ r1 # r2 /\ TargetOf(r1) = TargetOf(r2)
        /\ ~Exists(r1) /\ Phase(r1) = PhaseComplete
        /\ Exists(r2) /\ Phase(r2) = PhaseExecuting /\ HoldsLock(r2)

\* C3 as stated: no DataBackup in phase Complete or Failed holds the lock of
\* its target dataset.
C3_Claim ==
    \A r \in DataBackups :
        (Exists(r) /\ Phase(r) \in {PhaseComplete, PhaseFailed}) => ~HoldsLock(r)

\* C4: the DataBackupRef of a dataset is empty or the reference of a
\* DataBackup of that dataset whose finalizer has not been removed.
C4_LockRefIsLive ==
    \A d \in Datasets :
        \/ LockRef(d) = NoRef
        \/ \E r \in DataBackups :
              /\ Exists(r) /\ TargetOf(r) = d
              /\ LockRef(d) = MyDataBackupRef(r)

\* A DataBackup was removed while in phase Executing, and its lock is gone.
C4_Witness ==
    \E r \in DataBackups :
        /\ ~Exists(r) /\ Phase(r) = PhaseExecuting
        /\ LockRef(TargetOf(r)) = NoRef

\* A DataBackup with an unrecognized path never holds the lock.
UnrecognizedNeverLocks ==
    \A r \in DataBackups : HasUnrecognizedPath(r) => ~HoldsLock(r)

\* No reconciliation of a DataBackup with an unrecognized path writes a
\* dataset.
UnrecognizedNeverWrites ==
    \A r \in DataBackups :
        (HasUnrecognizedPath(r) /\ pc[r] # "idle" /\ pc'[r] # pc[r])
            => dataset' = dataset

\* C5: a DataBackup whose path starts with neither scheme never holds the
\* lock of its dataset, and none of its reconciliations writes the dataset.
C5_UnrecognizedPathNeverLocks ==
    []UnrecognizedNeverLocks /\ [][UnrecognizedNeverWrites]_vars

\* A DataBackup with an unrecognized path reached the path check and failed
\* there, with the lock of its dataset free.
C5_Witness ==
    \E r \in DataBackups :
        /\ HasUnrecognizedPath(r)
        /\ Phase(r) = PhaseFailed /\ ReasonOf(r) = "PathNotSupported"
        /\ LockRef(TargetOf(r)) = NoRef

\* The runtime bound to dataset d is of a supported type and its probe
\* answers ready.
RuntimeAnswersReady(d) ==
    /\ \E i \in 1..Len(dataset[d].Status.Runtimes) :
          /\ dataset[d].Status.Runtimes[i].Category = AccelerateCategory
          /\ dataset[d].Status.Runtimes[i].Type \in {AlluxioRuntime, GooseFSRuntime}
    /\ runtimeReady[d]

\* The calls of the Pending handler of r, made again and again, do not fail
\* forever.
PendingCallsSucceed(r) ==
    /\ SF_vars(reconcilePendingDataBackup(r, FALSE, FALSE))
    /\ SF_vars(reconcilePendingUpdatePhase(r, FALSE))

\* The calls of the Executing handler of r, made again and again, do not
\* fail forever.
ExecutingCallsSucceed(r) == SF_vars(reconcileExecutingDataBackup(r, "none"))

\* Each call of the deletion handler of r, made again and again, does not
\* fail forever.
DeletionCallsSucceed(r) ==
    /\ SF_vars(ReconcileDataBackupDeletion(r, "none"))
    /\ SF_vars(ReconcileDeletionReleaseLock(r, "none"))
    /\ SF_vars(ReconcileDeletionRemoveFinalizer(r, "none"))

\* C6 as stated, for DataBackups that are never marked for deletion: under
\* fair reconciliation with status writes that do not fail forever, every
\* Pending DataBackup with an unrecognized path eventually has phase Failed,
\* whatever the probe answers.
C6_Original ==
    \A r \in DataBackups :
        (/\ PendingCallsSucceed(r)
         /\ HasUnrecognizedPath(r) /\ Phase(r) = PhasePending
         /\ []~Deleting(r))
            => <>(Phase(r) = PhaseFailed)

\* C6 as amended: under fair reconciliation with status writes that do not
\* fail forever, a Pending DataBackup with an unrecognized path that is never
\* marked for deletion eventually has phase Failed, provided the runtime of
\* its dataset is from some time on always ready.
C6_Amended ==
    \A r \in DataBackups :
        (/\ PendingCallsSucceed(r)
         /\ HasUnrecognizedPath(r) /\ Phase(r) = PhasePending
         /\ <>[]RuntimeAnswersReady(TargetOf(r))
         /\ []~Deleting(r))
            => <>(Phase(r) = PhaseFailed)

\* A DataBackup with an unrecognized path failed at the path check on a
\* GooseFS runtime that is ready, another DataBackup holding the lock.
C6_Witness ==
    \E r, o \in DataBackups :
        /\ HasUnrecognizedPath(r) /\ ~Deleting(r)
        /\ Phase(r) = PhaseFailed /\ ReasonOf(r) = "PathNotSupported"
        /\ RuntimeAnswersReady(TargetOf(r))
        /\ o # r /\ HoldsLock(o)

\* C7: under fair reconciliation in which each call of the deletion handler
\* does not fail forever, a DataBackup marked for deletion, in any phase,
\* eventually has its finalizer removed with the DataBackupRef of its
\* dataset not its reference.
C7_DeletionCompletes ==
    \A r \in DataBackups :
        DeletionCallsSucceed(r) => (Deleting(r) ~> (~Exists(r) /\ ~HoldsLock(r)))

\* A DataBackup that held the lock in phase Complete was deleted and is
\* removed, the lock free again.
C7_Witness ==
    \E r \in DataBackups :
        /\ ~Exists(r) /\ Deleting(r) /\ Phase(r) = PhaseComplete
        /\ LockRef(TargetOf(r)) = NoRef

\* When the phase of r is written as Executing, the lock of its dataset is
\* the reference of r.
ExecutingHoldsLock ==
    \A r \in DataBackups :
        (Phase(r) # PhaseExecuting /\ databackup'[r].Status.Phase = PhaseExecuting)
            => dataset'[TargetOf(r)].Status.DataBackupRef = MyDataBackupRef(r)

\* A Pending reconciliation whose dataset write is rejected leaves every
\* dataset, and the DataBackup, as they were.
RejectedWriteChangesNothing ==
    \A r \in DataBackups :
        (HandlerEnds(r, "Pending") /\ result'[r].DatasetWrite = "rejected")
            => (dataset' = dataset /\ databackup' = databackup)

\* C8: lock acquisition is all-or-nothing.
C8_AllOrNothing == [][ExecutingHoldsLock /\ RejectedWriteChangesNothing]_vars

\* One DataBackup wrote the lock and is Executing; the write of the other,
\* made from the same version of the dataset, was rejected.
C8_Witness ==
    \E r1, r2 \in DataBackups :
        /\ r1 # r2 /\ TargetOf(r1) = TargetOf(r2)
        /\ Phase(r1) = PhaseExecuting /\ result[r1].DatasetWrite = "ok" /\ HoldsLock(r1)
        /\ Phase(r2) = PhasePending /\ result[r2].DatasetWrite = "rejected"

\* The phase changes a step may make.
PhaseChanges ==
    { <<PhasePending, PhaseExecuting>>, <<PhasePending, PhaseFailed>>,
      <<PhaseExecuting, PhaseComplete>>, <<PhaseExecuting, PhaseFailed>> }

\* C9: the phase of a DataBackup changes only forwards; Complete and Failed
\* are never left.
C9_PhaseMonotonic ==
    [][\A r \in DataBackups :
          \/ databackup'[r].Status.Phase = Phase(r)
          \/ <<Phase(r), databackup'[r].Status.Phase>> \in PhaseChanges]_vars

\* One DataBackup went through Executing to Failed, the other to Complete.
C9_Witness ==
    \E r1, r2 \in DataBackups :
        /\ Phase(r1) = PhaseFailed /\ ReasonOf(r1) = "BackupFailed"
        /\ Phase(r2) = PhaseComplete

\* C10: a reconciliation of a DataBackup in phase Complete or Failed that is
\* not marked for deletion changes neither the DataBackup nor a dataset, and
\* installs and removes no release.
C10_TerminalIdempotent ==
    [][\A r \in DataBackups :
          (/\ Exists(r) /\ ~Deleting(r)
           /\ Phase(r) \in {PhaseComplete, PhaseFailed}
           /\ pc'[r] # pc[r])
              => /\ databackup' = databackup
                 /\ dataset' = dataset
                 /\ releases' = releases
                 /\ backupPod' = backupPod]_vars

\* A DataBackup in phase Complete was reconciled again and nothing was
\* requeued.
C10_Witness ==
    \E r \in DataBackups :
        /\ Exists(r) /\ ~Deleting(r)
        /\ Phase(r) = PhaseComplete
        /\ pc[r] = "idle" /\ result[r].Requeue = NoRequeue

\* The worker pod of r, once running, eventually succeeds or fails.
PodTerminates(r) ==
    (backupPod[r] = "Running") ~> (backupPod[r] \in {"Succeeded", "Failed"})

\* C11: under fair reconciliation in which the calls of the Pending and the
\* Executing handler do not fail forever, a DataBackup that is never marked
\* for deletion, whose dataset has a runtime that is from some time on
\* always ready and whose worker pod eventually succeeds or fails,
\* eventually has phase Complete or Failed.
C11_Converges ==
    \A r \in DataBackups :
        (/\ PendingCallsSucceed(r) /\ ExecutingCallsSucceed(r)
         /\ []~Deleting(r)
         /\ <>[]RuntimeAnswersReady(TargetOf(r))
         /\ PodTerminates(r))
            => <>(Phase(r) \in {PhaseComplete, PhaseFailed})

\* One DataBackup ran to Complete and the other one of the same dataset, its
\* write rejected or the lock already taken, then failed by conflict; none
\* was deleted and the runtime is ready.
C11_Witness ==
    \E r1, r2 \in DataBackups :
        /\ r1 # r2 /\ TargetOf(r1) = TargetOf(r2)
        /\ Exists(r1) /\ ~Deleting(r1) /\ Phase(r1) = PhaseComplete
        /\ Exists(r2) /\ ~Deleting(r2)
        /\ Phase(r2) = PhaseFailed /\ ReasonOf(r2) = "conflictDataBackupRef"
        /\ RuntimeAnswersReady(TargetOf(r1))

\* The Pending reconciliation of r that ends in this step read the reference
\* of another DataBackup in the lock of its dataset.
ConflictReconciled(r) ==
    /\ HandlerEnds(r, "Pending")
    /\ ctx[r].Dataset.Status.DataBackupRef # NoRef
    /\ ctx[r].Dataset.Status.DataBackupRef # MyDataBackupRef(r)

\* The step writes phase Failed with reason conflictDataBackupRef on r and
\* requeues immediately.
ConflictWritten(r) ==
    /\ databackup'[r].Status.Phase = PhaseFailed
    /\ databackup'[r].Status.Conditions = Condition("Failed", "conflictDataBackupRef")
    /\ result'[r].Requeue = RequeueImmediately

\* C12: a Pending reconciliation that read another DataBackup's reference in
\* the lock leaves every dataset as it was and installs nothing; when its
\* status update does not fail it sets phase Failed with reason
\* conflictDataBackupRef and requeues immediately, and when it fails the
\* DataBackup is as it was and the error is requeued; all this whatever the
\* runtime probe answers and whatever the path.
C12_ConflictOutcome ==
    [][\A r \in DataBackups :
          /\ ConflictReconciled(r)
                => /\ dataset' = dataset
                   /\ releases' = releases
                   /\ \/ ConflictWritten(r)
                      \/ /\ databackup'[r] = databackup[r]
                         /\ result'[r].Requeue = RequeueIfError
          /\ (/\ ConflictReconciled(r)
              /\ \E writeErr \in BOOLEAN : reconcilePendingDataBackup(r, writeErr, FALSE)
              /\ ctx[r].DataBackup = databackup[r])
                => ConflictWritten(r)]_vars

\* A DataBackup with an unrecognized path, on a dataset whose runtime is not
\* ready, has just failed by conflict with the holder of the lock.
C12_Witness ==
    \E r, o \in DataBackups :
        /\ o # r /\ TargetOf(o) = TargetOf(r) /\ HoldsLock(o)
        /\ HasUnrecognizedPath(r) /\ ~RuntimeAnswersReady(TargetOf(r))
        /\ Phase(r) = PhaseFailed /\ ReasonOf(r) = "conflictDataBackupRef"
        /\ pc[r] = "idle" /\ result[r].Requeue = RequeueImmediately

\* The step is the Pending handler of r up to its write of the lock, with no
\* call failing and what was read still current, for a path of a recognized
\* scheme, a runtime that answers ready and a lock that is free or already
\* the lock of r.
AcquisitionStep(r) ==
    /\ reconcilePendingDataBackup(r, FALSE, FALSE)
    /\ ctx[r].DataBackup = databackup[r]
    /\ ctx[r].Dataset = dataset[TargetOf(r)]
    /\ PathSupported(databackup[r].Spec.BackupPath)
    /\ RuntimeAnswersReady(TargetOf(r))
    /\ LockRef(TargetOf(r)) \in {NoRef, MyDataBackupRef(r)}

\* The step is the update of the phase that follows an accepted write of the
\* lock, with the call not failing and the DataBackup as it was read.
AdvanceStep(r) ==
    /\ reconcilePendingUpdatePhase(r, FALSE)
    /\ ctx[r].DataBackup = databackup[r]

\* The step ends the reconciliation of r with the phase Executing, the lock
\* the reference of r and an immediate requeue, writing no dataset.
Advanced(r, write) ==
    /\ dataset' = dataset
    /\ dataset'[TargetOf(r)].Status.DataBackupRef = MyDataBackupRef(r)
    /\ databackup'[r].Status.Phase = PhaseExecuting
    /\ pc'[r] = "idle"
    /\ result'[r].Requeue = RequeueImmediately
    /\ result'[r].DatasetWrite = write

\* A free lock is written and the handler goes on to the update of the
\* phase; a lock that already is the reference of r is not written again and
\* the phase is advanced at once.
Acquires ==
    \A r \in DataBackups :
        /\ (AcquisitionStep(r) /\ ~HoldsLock(r))
              => /\ dataset'[TargetOf(r)].Status.DataBackupRef = MyDataBackupRef(r)
                 /\ pc'[r] = "UpdatePhase"
                 /\ databackup' = databackup
        /\ (AcquisitionStep(r) /\ HoldsLock(r)) => Advanced(r, "none")
        /\ AdvanceStep(r) => Advanced(r, "ok")

\* While the handler of r waits to update the phase the lock is the
\* reference of r and the phase is Pending.
LockKeptUntilAdvance ==
    \A r \in DataBackups :
        pc[r] = "UpdatePhase" => (HoldsLock(r) /\ Phase(r) = PhasePending)

\* C13: a Pending reconciliation in which no write fails, for a recognized
\* path, a ready runtime and a lock that is free or already the request's,
\* writes the lock and then the phase: it ends with the lock the request's
\* reference and the phase Executing and requeues immediately; when the lock
\* already was the request's reference no dataset is written and the phase
\* is advanced all the same.
C13_Acquisition == []LockKeptUntilAdvance /\ [][Acquires]_vars

\* A DataBackup whose lock was taken by an earlier reconciliation has been
\* advanced to Executing by a reconciliation that wrote no dataset.
C13_Witness ==
    \E r \in DataBackups :
        /\ Phase(r) = PhaseExecuting /\ HoldsLock(r)
        /\ pc[r] = "idle"
        /\ result[r].Requeue = RequeueImmediately
        /\ result[r].DatasetWrite = "none"

\* The write of the lock made by the Pending handler of r is accepted in this
\* step: the handler goes on to the update of the phase.
LockWriteAccepted(r) == pc[r] = "Pending" /\ pc'[r] = "UpdatePhase"

\* The write of the lock made by the Pending handler of r is rejected in this
\* step: the reconciliation ends.
LockWriteRejected(r) ==
    pc[r] = "Pending" /\ pc'[r] = "idle" /\ result'[r].DatasetWrite = "rejected"

\* The Pending handler of r attempts the write of the lock in this step.
LockWriteAttempted(r) == LockWriteAccepted(r) \/ LockWriteRejected(r)

\* The dataset that the running reconciliation of r read is still at the
\* version that was read.
ReadVersionCurrent(r) ==
    ctx[r].Dataset.ResourceVersion = dataset[TargetOf(r)].ResourceVersion

\* A write of the lock is attempted only on a lock read as empty; it succeeds
\* only from the current version, moves the version on and leaves the
\* reference of the writer in the field.
WinnerTakesLock ==
    \A r \in DataBackups :
        LockWriteAttempted(r)
            => /\ ctx[r].Dataset.Status.DataBackupRef = NoRef
               /\ LockWriteAccepted(r)
                    => /\ ReadVersionCurrent(r)
                       /\ dataset'[TargetOf(r)].ResourceVersion
                            # dataset[TargetOf(r)].ResourceVersion
                       /\ dataset'[TargetOf(r)].Status.DataBackupRef = MyDataBackupRef(r)

\* A write of the lock from a version that is no longer current is rejected,
\* and a write from the current version is accepted unless the call fails.
StaleWriteRejected ==
    \A r \in DataBackups :
        /\ (LockWriteAttempted(r) /\ ~ReadVersionCurrent(r))
              => LockWriteRejected(r)
        /\ (LockWriteAttempted(r) /\ ReadVersionCurrent(r)
              /\ reconcilePendingDataBackup(r, FALSE, FALSE))
              => LockWriteAccepted(r)

\* The DataBackup whose write is rejected stays Pending and unchanged, is
\* requeued after the interval, and the lock is as it was and not its own.
LoserStaysPending ==
    \A r \in DataBackups :
        LockWriteRejected(r)
            => /\ databackup'[r] = databackup[r]
               /\ databackup'[r].Status.Phase = PhasePending
               /\ result'[r].Requeue = RequeueAfterInterval
               /\ dataset' = dataset
               /\ dataset'[TargetOf(r)].Status.DataBackupRef # MyDataBackupRef(r)

\* C14: of the writes of the lock made from one version of a dataset read
\* with an empty lock, the first one is accepted, unless its call fails, and
\* every later one is rejected; the DataBackup whose write is rejected stays
\* Pending, is requeued after the interval, and the lock holds the winner's
\* reference and never the loser's.
C14_LockRace == [][WinnerTakesLock /\ StaleWriteRejected /\ LoserStaysPending]_vars

\* Two DataBackups raced for the lock of one dataset: the write of one was
\* accepted and the lock is its reference; the write of the other was
\* rejected and it is Pending, requeued after the interval.
C14_Witness ==
    \E r1, r2 \in DataBackups :
        /\ r1 # r2 /\ TargetOf(r1) = TargetOf(r2)
        /\ ~Deleting(r1) /\ ~Deleting(r2)
        /\ result[r1].DatasetWrite = "ok" /\ LockRef(TargetOf(r1)) = MyDataBackupRef(r1)
        /\ pc[r2] = "idle" /\ Phase(r2) = PhasePending
        /\ result[r2].DatasetWrite = "rejected"
        /\ result[r2].Requeue = RequeueAfterInterval

\* The finalizer of r is not on the DataBackup after the step.
FinalizerRemoved(r) == Finalizer \notin databackup'[r].Finalizers

\* C15: no step of the deletion handler of a DataBackup that does not hold
\* the lock of its dataset (the lock is free or another DataBackup's) writes
\* a dataset, and the DataBackup does not come to hold the lock while its
\* deletion handler runs; the release of a lock that is not held is not an
\* error, and when the update does not fail the finalizer is removed and
\* nothing is requeued.
C15_NonHolderDeletion ==
    [][\A r \in DataBackups :
          /\ (HandlerSteps(r, "Deletion") /\ ~HoldsLock(r)) => dataset' = dataset
          /\ (pc[r] \in Positions("Deletion") /\ ~HoldsLock(r))
                => dataset'[TargetOf(r)].Status.DataBackupRef # MyDataBackupRef(r)
          /\ (ReconcileDeletionReleaseLock(r, "none") /\ ~HoldsLock(r))
                => pc'[r] = "RemoveFinalizer"
          /\ (/\ ReconcileDeletionRemoveFinalizer(r, "none")
              /\ ctx[r].DataBackup = databackup[r])
                => /\ FinalizerRemoved(r)
                   /\ result'[r].Requeue = NoRequeue]_vars

\* A DataBackup that failed by conflict was deleted and is removed, and the
\* lock of its dataset is still the reference of the other DataBackup.
C15_Witness ==
    \E r1, r2 \in DataBackups :
        /\ r1 # r2 /\ TargetOf(r1) = TargetOf(r2)
        /\ Exists(r1) /\ HoldsLock(r1)
        /\ ~Exists(r2) /\ Deleting(r2)
        /\ Phase(r2) = PhaseFailed /\ ReasonOf(r2) = "conflictDataBackupRef"
        /\ result[r2].Requeue = NoRequeue

\* The release of r and its pod are gone after the step.
ArtifactRemoved(r) == r \notin releases' /\ backupPod'[r] = "NotFound"

\* The lock of the dataset of r is not the reference of r after the step.
LockReleased(r) == dataset'[TargetOf(r)].Status.DataBackupRef # MyDataBackupRef(r)

\* The step returns the error of a call for a requeue.
ErrorRequeued(r) == result'[r].Requeue = RequeueIfError

\* A deletion run stops at the call that fails: a failed removal of the
\* release changes nothing; a failed release of the lock follows the removal
\* of the release and writes no dataset and no DataBackup; a failed update
\* of the DataBackup follows the removal of the release and the release of
\* the lock.  The error is requeued each time and the run is over.
DeletionAborts ==
    \A r \in DataBackups :
        /\ ReconcileDataBackupDeletion(r, "DeleteRelease")
              => /\ ErrorRequeued(r) /\ pc'[r] = "idle"
                 /\ UNCHANGED <<releases, backupPod, dataset, databackup>>
        /\ ReconcileDeletionReleaseLock(r, "ReleaseLock")
              => /\ ErrorRequeued(r) /\ pc'[r] = "idle" /\ ArtifactRemoved(r)
                 /\ UNCHANGED <<dataset, databackup>>
        /\ ReconcileDeletionRemoveFinalizer(r, "RemoveFinalizer")
              => /\ ErrorRequeued(r) /\ pc'[r] = "idle"
                 /\ ArtifactRemoved(r) /\ LockReleased(r)
                 /\ UNCHANGED databackup

\* The calls are ordered: the release of the lock is reached only from the
\* removal of the release, and the removal of the finalizer only from the
\* release of the lock; a deletion run removes a release only in its first
\* call, writes a dataset only in its second, with the release removed, and
\* writes the DataBackup only in its third, with the release removed and the
\* lock released, and then returns without a requeue.
DeletionOrdered ==
    \A r \in DataBackups :
        /\ (pc[r] # "ReleaseLock" /\ pc'[r] = "ReleaseLock") => pc[r] = "Deletion"
        /\ (pc[r] # "RemoveFinalizer" /\ pc'[r] = "RemoveFinalizer")
              => pc[r] = "ReleaseLock"
        /\ HandlerSteps(r, "Deletion")
              => /\ releases' # releases => pc[r] = "Deletion"
                 /\ dataset' # dataset
                      => (pc[r] = "ReleaseLock" /\ ArtifactRemoved(r))
                 /\ databackup' # databackup
                      => /\ pc[r] = "RemoveFinalizer"
                         /\ ArtifactRemoved(r) /\ LockReleased(r)
                         /\ FinalizerRemoved(r)
                         /\ result'[r].Requeue = NoRequeue
                 /\ (pc'[r] = "idle" /\ ErrorRequeued(r)) => databackup' = databackup

\* While the deletion handler waits to release the lock the release is
\* removed, and while it waits to remove the finalizer the lock is released
\* as well.
DeletionKeepsOrder ==
    \A r \in DataBackups :
        /\ pc[r] \in {"ReleaseLock", "RemoveFinalizer"}
              => (r \notin releases /\ backupPod[r] = "NotFound")
        /\ pc[r] = "RemoveFinalizer" => ~HoldsLock(r)

\* A deletion run in which no call fails, from whatever earlier runs have
\* left, removes the release, then releases the lock, then removes the
\* finalizer and returns without a requeue.
DeletionRerunCompletes ==
    \A r \in DataBackups :
        /\ ReconcileDataBackupDeletion(r, "none")
              => (ArtifactRemoved(r) /\ pc'[r] = "ReleaseLock")
        /\ ReconcileDeletionReleaseLock(r, "none")
              => (ArtifactRemoved(r) /\ LockReleased(r) /\ pc'[r] = "RemoveFinalizer")
        /\ (/\ ReconcileDeletionRemoveFinalizer(r, "none")
            /\ ctx[r].DataBackup = databackup[r])
              => /\ ArtifactRemoved(r) /\ LockReleased(r) /\ FinalizerRemoved(r)
                 /\ pc'[r] = "idle" /\ result'[r].Requeue = NoRequeue

\* C16: the deletion handler removes the release, releases the lock and
\* removes the finalizer in this order; a step that fails ends the run with
\* the error requeued and the later steps not made; a run from the top after
\* a partial run reaches the same final state.
C16_DeletionOrder ==
    /\ []DeletionKeepsOrder
    /\ [][DeletionAborts /\ DeletionOrdered /\ DeletionRerunCompletes]_vars

\* A DataBackup that completed was deleted, and a deletion run removed its
\* release and then failed to release the lock: the error is requeued, the
\* lock and the finalizer are still there.
C16_Witness ==
    \E r \in DataBackups :
        /\ Deleting(r) /\ Exists(r) /\ Phase(r) = PhaseComplete
        /\ pc[r] = "idle" /\ result[r].Requeue = RequeueIfError
        /\ r \notin releases /\ backupPod[r] = "NotFound"
        /\ HoldsLock(r)

\* A call of the reconciliation of r that ends in this step failed: the
\* error of a call is requeued, or the write of the lock was rejected.
CallFailed(r) ==
    /\ HandlerEnds(r, "Pending") \/ HandlerEnds(r, "Executing")
    /\ result'[r].Requeue = RequeueIfError \/ result'[r].DatasetWrite = "rejected"

\* A reconciliation in which a call failed leaves the status of the
\* DataBackup as it was, installs nothing, and returns a requeue.
FailedCallKeepsPhase ==
    \A r \in DataBackups :
        CallFailed(r)
            => /\ databackup'[r].Status = databackup[r].Status
               /\ releases' = releases
               /\ result'[r].Requeue \in {RequeueIfError, RequeueAfterInterval}

\* The phase of a DataBackup becomes Failed only in a Pending reconciliation
\* that read another DataBackup's lock or has a path of no recognized scheme,
\* or in an Executing reconciliation that found the pod failed; no call of
\* that reconciliation failed.
FailedOnlyByVerdict ==
    \A r \in DataBackups :
        (Phase(r) # PhaseFailed /\ databackup'[r].Status.Phase = PhaseFailed)
            => /\ ~CallFailed(r)
               /\ \/ /\ HandlerEnds(r, "Pending")
                     /\ IsConflict(ctx[r].Dataset.Status.DataBackupRef, MyDataBackupRef(r))
                     /\ databackup'[r].Status.Conditions
                          = Condition("Failed", "conflictDataBackupRef")
                  \/ /\ HandlerEnds(r, "Pending")
                     /\ ~PathSupported(databackup[r].Spec.BackupPath)
                     /\ databackup'[r].Status.Conditions
                          = Condition("Failed", "PathNotSupported")
                  \/ /\ HandlerEnds(r, "Executing")
                     /\ r \in releases /\ IsFailedPod(backupPod[r])
                     /\ databackup'[r].Status.Conditions
                          = Condition("Failed", "BackupFailed")

\* C17: a Pending or Executing reconciliation in which a call fails leaves
\* the phase as it was and returns a requeue; the phase is set to Failed only
\* by a reconciliation that finds a conflict of the lock, an unsupported
\* path or a failed worker pod.
C17_TransientNotTerminal == [][FailedCallKeepsPhase /\ FailedOnlyByVerdict]_vars

\* The worker pod of an Executing DataBackup has failed, and the status
\* update of the reconciliation that found it failed: the DataBackup is
\* still Executing and the error is requeued.
C17_Witness ==
    \E r \in DataBackups :
        /\ ~Deleting(r) /\ Phase(r) = PhaseExecuting
        /\ r \in releases /\ backupPod[r] = "Failed"
        /\ pc[r] = "idle" /\ result[r].Requeue = RequeueIfError

\* An Executing reconciliation installs only when the release of the
\* DataBackup does not exist; it then leaves the DataBackup as it was,
\* whatever the state of a pod, and requeues after the interval.
InstallsOnlyWhenAbsent ==
    \A r \in DataBackups :
        (HandlerEnds(r, "Executing") /\ result'[r].Installed)
            => /\ r \notin releases /\ r \in releases'
               /\ databackup' = databackup
               /\ result'[r].Requeue = RequeueAfterInterval

\* With the release absent the phase is not changed, and when no call fails
\* the release is installed; with the release there nothing is installed.
ReleaseDecidesInstall ==
    \A r \in DataBackups :
        /\ (HandlerEnds(r, "Executing") /\ r \notin releases)
              => /\ databackup' = databackup
                 /\ reconcileExecutingDataBackup(r, "none") => result'[r].Installed
        /\ (HandlerEnds(r, "Executing") /\ r \in releases)
              => (~result'[r].Installed /\ releases' = releases)

\* A release is added only by the installing reconciliation of its
\* DataBackup and is removed only by the deletion handler of its DataBackup.
ReleaseKept ==
    \A r \in DataBackups :
        /\ (r \notin releases /\ r \in releases')
              => (HandlerEnds(r, "Executing") /\ result'[r].Installed)
        /\ (r \in releases /\ r \notin releases') => HandlerSteps(r, "Deletion")

\* C18: an Executing reconciliation installs only when the release does not
\* exist, and then requeues after the interval with the phase as it was and
\* the pod not looked at; when the release exists nothing is installed.  A
\* release that is installed stays until the deletion handler removes it, so
\* between two installs of one DataBackup the release has been removed.
C18_InstallOnce ==
    [][InstallsOnlyWhenAbsent /\ ReleaseDecidesInstall /\ ReleaseKept]_vars

\* The release of an Executing DataBackup was installed by its last
\* reconciliation, which requeued after the interval; the pod has succeeded
\* since and has not been looked at.
C18_Witness ==
    \E r \in DataBackups :
        /\ Phase(r) = PhaseExecuting /\ ~Deleting(r)
        /\ pc[r] = "idle" /\ result[r].Installed
        /\ result[r].Requeue = RequeueAfterInterval
        /\ r \in releases /\ backupPod[r] = "Succeeded"

\* The worker pod of r has succeeded or failed.
PodTerminal(r) == IsSucceededPod(backupPod[r]) \/ IsFailedPod(backupPod[r])

\* The phase of r leaves Executing only in an Executing reconciliation of r
\* with the release there: to Complete with the pod succeeded, to Failed
\* with the pod failed.
ExitsOnTerminalPod ==
    \A r \in DataBackups :
        (Phase(r) = PhaseExecuting /\ databackup'[r].Status.Phase # PhaseExecuting)
            => /\ HandlerEnds(r, "Executing")
               /\ r \in releases
               /\ \/ /\ databackup'[r].Status.Phase = PhaseComplete
                     /\ IsSucceededPod(backupPod[r])
                  \/ /\ databackup'[r].Status.Phase = PhaseFailed
                     /\ IsFailedPod(backupPod[r])

\* An Executing reconciliation that finds the pod neither succeeded nor
\* failed leaves the DataBackup as it was; it requeues after the interval
\* when none of its calls fails, and with the error otherwise.
StallsWhileRunning ==
    \A r \in DataBackups :
        (HandlerEnds(r, "Executing") /\ ~PodTerminal(r))
            => /\ databackup' = databackup
               /\ result'[r].Requeue \in {RequeueAfterInterval, RequeueIfError}
               /\ reconcileExecutingDataBackup(r, "none")
                    => result'[r].Requeue = RequeueAfterInterval

\* C19: the phase changes from Executing to Complete only in a
\* reconciliation that finds the release and the pod succeeded, and to Failed
\* only in one that finds the release and the pod failed; while the pod is
\* neither, a reconciliation leaves the phase Executing and requeues after
\* the interval.
C19_ExitOnTerminalPod == [][ExitsOnTerminalPod /\ StallsWhileRunning]_vars

\* An Executing DataBackup whose release exists and whose pod is running was
\* reconciled: nothing was installed, the phase is Executing and the
\* reconciliation requeued after the interval.
C19_Witness ==
    \E r \in DataBackups :
        /\ Phase(r) = PhaseExecuting /\ ~Deleting(r)
        /\ r \in releases /\ backupPod[r] = "Running"
        /\ pc[r] = "idle" /\ ~result[r].Installed
        /\ result[r].Requeue = RequeueAfterInterval

\* The persisted Duration of r: empty, or one number.
DurationOf(r) == databackup[r].Status.Duration

\* The step writes the phase of r as Complete or Failed from Executing.
TerminalTransition(r) ==
    /\ Phase(r) = PhaseExecuting
    /\ databackup'[r].Status.Phase \in {PhaseComplete, PhaseFailed}

\* The terminal transition writes the Duration: the time of the first
\* condition of the pod less the creation time when the pod has a condition,
\* the current time less the creation time when it has none; it is not
\* negative.
DurationComputed ==
    \A r \in DataBackups :
        TerminalTransition(r)
            => /\ Len(databackup'[r].Status.Duration) = 1
               /\ databackup'[r].Status.Duration[1] >= 0
               /\ Len(podConditions[r]) >= 1
                    => databackup'[r].Status.Duration[1]
                         = podConditions[r][1].LastTransitionTime
                             - databackup[r].CreationTimestamp
               /\ Len(podConditions[r]) = 0
                    => databackup'[r].Status.Duration[1]
                         = now - databackup[r].CreationTimestamp

\* The Duration is written by the terminal transition only: no other step
\* changes it, and a Duration that is written is not changed again.
DurationWrittenOnce ==
    \A r \in DataBackups :
        databackup'[r].Status.Duration # DurationOf(r)
            => (TerminalTransition(r) /\ DurationOf(r) = <<>>)

\* A DataBackup has a Duration exactly when its phase was written as
\* Complete or Failed from Executing, and the Duration is not negative.
DurationOnlyAfterExecuting ==
    \A r \in DataBackups :
        /\ DurationOf(r) # <<>>
              <=> \/ Phase(r) = PhaseComplete
                  \/ Phase(r) = PhaseFailed /\ ReasonOf(r) = "BackupFailed"
        /\ DurationOf(r) # <<>> => DurationOf(r)[1] >= 0

\* C20: when the phase is written as Complete or Failed from Executing the
\* persisted Duration is not negative, and is the LastTransitionTime of the
\* first condition of the pod less the creation time when the pod has a
\* condition, and the current time less the creation time when it has none;
\* the Duration is written in that transition only and never changed after.
C20_Duration ==
    /\ []DurationOnlyAfterExecuting
    /\ [][DurationComputed /\ DurationWrittenOnce]_vars

\* A DataBackup created before the clock started is Complete with a
\* Duration above zero that is the time of the first condition of its pod
\* less its creation time, written at a later time; the other DataBackup
\* failed by conflict and has no Duration.
C20_Witness ==
    \E r, o \in DataBackups :
        /\ Phase(r) = PhaseComplete /\ Len(podConditions[r]) = 1
        /\ DurationOf(r) = <<podConditions[r][1].LastTransitionTime
                               - databackup[r].CreationTimestamp>>
        /\ DurationOf(r)[1] > 0
        /\ now > podConditions[r][1].LastTransitionTime
        /\ o # r /\ Phase(o) = PhaseFailed /\ DurationOf(o) = <<>>

\* Every DataBackup in phase Executing that is not marked for deletion holds
\* the lock of its dataset.
ExecutingIsHolder ==
    \A r \in DataBackups :
        (Exists(r) /\ Phase(r) = PhaseExecuting /\ ~Deleting(r)) => HoldsLock(r)

\* The lock of the dataset of r is no longer what the running reconciliation
\* of r knows it to be: what it read, or what it wrote when its write of the
\* lock was accepted.
LockSnapshotStale(r) ==
    LET known == IF pc[r] = "UpdatePhase" THEN MyDataBackupRef(r)
                 ELSE ctx[r].Dataset.Status.DataBackupRef
    IN  known # LockRef(TargetOf(r))

\* A Pending reconciliation whose snapshot of the lock is stale does not
\* advance the phase to Executing, and one that advances the phase leaves
\* the lock the reference of its DataBackup.
NoAdvanceFromStaleSnapshot ==
    \A r \in DataBackups :
        /\ (HandlerEnds(r, "Pending") /\ LockSnapshotStale(r))
              => databackup'[r].Status.Phase # PhaseExecuting
        /\ (HandlerEnds(r, "Pending") /\ databackup'[r].Status.Phase = PhaseExecuting)
              => /\ ctx[r].Dataset.Status.DataBackupRef \in {NoRef, MyDataBackupRef(r)}
                 /\ dataset'[TargetOf(r)].Status.DataBackupRef = MyDataBackupRef(r)

\* C21: in every reachable state a DataBackup that is in phase Executing and
\* not marked for deletion holds the lock of its dataset; the phase is never
\* advanced to Executing from a snapshot of the dataset whose lock has
\* changed since it was read.
C21_ExecutingHoldsLock ==
    []ExecutingIsHolder /\ [][NoAdvanceFromStaleSnapshot]_vars

\* One DataBackup is Executing, not marked for deletion and holds the lock,
\* while the Pending reconciliation of another DataBackup of the dataset is
\* running on a snapshot in which the lock is still empty.
C21_Witness ==
    \E r1, r2 \in DataBackups :
        /\ r1 # r2 /\ TargetOf(r1) = TargetOf(r2)
        /\ Exists(r1) /\ ~Deleting(r1) /\ Phase(r1) = PhaseExecuting /\ HoldsLock(r1)
        /\ pc[r2] = "Pending" /\ ~Deleting(r2)
        /\ ctx[r2].Dataset.Status.DataBackupRef = NoRef

====
